---- MODULE Spec2Model ----
(***************************************************************************)
(* A model of src/app.py: pdf_to_base64_first_two_pages and                *)
(* create_searchable_pdf, the submit / poll / fetch client of the remote   *)
(* OCR service.                                                            *)
(*                                                                         *)
(* Strings are sequences of one-character strings, so that str.split and   *)
(* str.replace work on characters as they do in Python.  Files are         *)
(* sequences of bytes.  The remote service, the file system and the clock  *)
(* are the environment: every response is drawn from a small set.          *)
(***************************************************************************)
EXTENDS Integers, Sequences, FiniteSets, TLC

VARIABLES
    pc,         \* the line create_searchable_pdf is at, or "done" / "failed"
    file_path,  \* the argument file_path
    endpoint,   \* the argument endpoint
    api_key,    \* the argument api_key
    fs,         \* the file system: the bytes of every existing file, by path
    fs0,        \* the file system as it was when the function was called
    payload,    \* base64Source_data, <<>> before line 37 has run
    result_id,  \* result_id, as <<id>>, <<>> before line 57 has run
    err,        \* the exception that left the function, as <<e>>, or <<>>
    log         \* the calls made so far: I/O, HTTP, sleep and print, in order

vars == <<pc, file_path, endpoint, api_key, fs, fs0, payload, result_id, err, log>>

(***************************************************************************)
(* Bounds of the exploration.                                              *)
(***************************************************************************)
\* The service answers 202 to at most MaxPolls polls of one invocation.
MaxPolls == 3
\* Operation-Location header values have at most MaxUrlLen characters.
MaxUrlLen == 3
\* The documents given to pdf_to_base64_first_two_pages alone have at most
\* MaxPages pages.
MaxPages == 3

(***************************************************************************)
(* Python values.                                                          *)
(***************************************************************************)
\* The seconds of time.sleep in the poll loop.
SleepSeconds == 5

\* The page limit of pdf_to_base64_first_two_pages.
PageLimit == 2

\* The one status on which the submission goes on.
Accepted == 202

\* The status on which polling and fetching succeed.
Ok == 200

(***************************************************************************)
(* String helpers, as Python computes them.                                *)
(***************************************************************************)
\* s.startswith(t) at position i (1-based).
MatchAt(s, t, i) ==
    /\ i + Len(t) - 1 <= Len(s)
    /\ \A k \in 1..Len(t) : s[i + k - 1] = t[k]

\* str.split(sep) for a one-character separator: the list of the pieces
\* between the separators; a string without separator gives one piece.
RECURSIVE SplitFrom(_, _, _, _)
SplitFrom(s, sep, i, piece) ==
    IF i > Len(s) THEN <<piece>>
    ELSE IF s[i] = sep THEN <<piece>> \o SplitFrom(s, sep, i + 1, <<>>)
    ELSE SplitFrom(s, sep, i + 1, Append(piece, s[i]))

Split(s, sep) == SplitFrom(s, sep, 1, <<>>)

\* str.replace(old, new) for a non-empty old: the occurrences are found
\* from left to right, they do not overlap, and the text put in is not
\* searched again.
RECURSIVE ReplaceFrom(_, _, _, _)
ReplaceFrom(s, old, new, i) ==
    IF i > Len(s) THEN <<>>
    ELSE IF MatchAt(s, old, i)
         THEN new \o ReplaceFrom(s, old, new, i + Len(old))
         ELSE <<s[i]>> \o ReplaceFrom(s, old, new, i + 1)

Replace(s, old, new) == ReplaceFrom(s, old, new, 1)

\* The set of the sequences over S of length at most n.
RECURSIVE SeqsUpTo(_, _)
SeqsUpTo(S, n) ==
    IF n = 0 THEN {<<>>}
    ELSE LET shorter == SeqsUpTo(S, n - 1)
         IN  shorter \cup {Append(s, c) : s \in shorter, c \in S}

(***************************************************************************)
(* The literals of create_searchable_pdf.                                  *)
(***************************************************************************)
DotPdf == <<".", "p", "d", "f">>

SearchablePdf ==
    <<"_", "s", "e", "a", "r", "c", "h", "a", "b", "l", "e", ".", "p", "d", "f">>

PostPath ==
    "/documentintelligence/documentModels/prebuilt-read:analyze?_overload=analyzeDocument&api-version=2024-07-31-preview&output=pdf"

ResultsPath == "/documentintelligence/documentModels/prebuilt-read/analyzeResults/"

ApiVersionQuery == "?api-version=2024-07-31-preview"

PdfQuery == "/pdf?api-version=2024-07-31-preview"

(***************************************************************************)
(* Files and PDF documents.  A file is a sequence of bytes.  A PDF file is *)
(* the byte 37 ("%", the first byte of the "%PDF" header) followed by one  *)
(* byte per page; every other file is not a PDF.                           *)
(***************************************************************************)
Min(a, b) == IF a < b THEN a ELSE b

\* A variant that takes every non-empty file for a PDF.
IsPdf_AnyFile(bytes) == Len(bytes) > 0

\* Whether PyPDF2.PdfReader accepts the bytes.
IsPdf(bytes) == Len(bytes) > 0 /\ bytes[1] = 37

\* reader.pages of a PDF file.
Pages(bytes) == Tail(bytes)

\* A variant that takes one page more than the limit.
AddedPages_OneTooMany(pages) ==
    [i \in 1..Min(PageLimit + 1, Len(pages)) |-> pages[i]]

\* The pages the loop of pdf_to_base64_first_two_pages adds to the writer:
\* reader.pages[0 .. min(2, len(reader.pages)) - 1], in this order.
AddedPages(pages) == [i \in 1..Min(PageLimit, Len(pages)) |-> pages[i]]

\* writer.write(buffer): the serialized bytes of a document of these pages.
WriterBytes(pages) == <<37>> \o pages

\* The base64 alphabet.
B64Chars ==
    <<"A", "B", "C", "D", "E", "F", "G", "H", "I", "J", "K", "L", "M", "N", "O", "P",
       "Q", "R", "S", "T", "U", "V", "W", "X", "Y", "Z", "a", "b", "c", "d", "e", "f",
       "g", "h", "i", "j", "k", "l", "m", "n", "o", "p", "q", "r", "s", "t", "u", "v",
       "w", "x", "y", "z", "0", "1", "2", "3", "4", "5", "6", "7", "8", "9", "+", "/">>

\* base64.b64encode(bytes).decode('utf-8'): 3 bytes give 4 characters, the
\* last group is padded with "=".
RECURSIVE B64From(_, _)
B64From(b, i) ==
    IF i > Len(b) THEN <<>>
    ELSE LET n  == Len(b) - i + 1
             b1 == b[i]
             b2 == IF n >= 2 THEN b[i + 1] ELSE 0
             b3 == IF n >= 3 THEN b[i + 2] ELSE 0
             c1 == b1 \div 4
             c2 == (b1 % 4) * 16 + (b2 \div 16)
             c3 == (b2 % 16) * 4 + (b3 \div 64)
             c4 == b3 % 64
         IN  <<B64Chars[c1 + 1], B64Chars[c2 + 1]>>
             \o (IF n >= 2 THEN <<B64Chars[c3 + 1]>> ELSE <<"=">>)
             \o (IF n >= 3 THEN <<B64Chars[c4 + 1]>> ELSE <<"=">>)
             \o B64From(b, i + 3)

\* A variant that leaves the padding out.
IsNoPadding(c) == c # "="

b64encode_Unpadded(bytes) == SelectSeq(B64From(bytes, 1), IsNoPadding)

b64encode(bytes) == B64From(bytes, 1)

\* pdf_to_base64_first_two_pages on the bytes of a PDF file.
pdf_to_base64_first_two_pages(bytes) ==
    b64encode(WriterBytes(AddedPages(Pages(bytes))))

(***************************************************************************)
(* The values create_searchable_pdf computes.  An optional Python value    *)
(* (None or a string) is a sequence of at most one element: <<>> is None.  *)
(***************************************************************************)
\* A variant that passes the key in the URL as well.
PostUrl_KeyInQuery(ep) == <<ep, PostPath, api_key>>

\* post_url.
PostUrl(ep) == <<ep, PostPath>>

\* The headers of the POST.
PostHeaders(key) == [subscription_key |-> key, content_type |-> "application/json"]

\* The headers of both GETs.
GetHeaders(key) == [subscription_key |-> key]

\* A variant that lets every status below 500 through.
PostRejected_ServerErrorsOnly(status) == status >= 500

\* The condition of line 48: the submission response makes line 49 raise.
PostRejected(status) == status # Accepted

\* A variant that tests "result_location is None".
HeaderMissing_OnlyNone(result_location) == result_location = <<>>

\* "not result_location": the header is missing or its value is empty.
HeaderMissing(result_location) ==
    result_location = <<>> \/ result_location[1] = <<>>

\* result_location.split('/')[-1].split('?')[0].
ExtractResultId(location) ==
    LET segments == Split(location, "/")
    IN  Split(segments[Len(segments)], "?")[1]

\* A variant that leaves the result id out of the URL.
GetUrl_NoId(ep, id) == <<ep, ResultsPath, <<>>>>

\* get_url.
GetUrl(ep, id) == <<ep, ResultsPath, id>>

\* The URL of a poll: get_url + '?api-version=2024-07-31-preview'.
PollUrl(url) == url \o <<ApiVersionQuery>>

\* pdf_url.
PdfUrl(url) == url \o <<PdfQuery>>

\* output_pdf_path.
OutputPath(path) == Replace(path, DotPdf, SearchablePdf)

(***************************************************************************)
(* The log of calls.  An HTTP call that raised has raised = TRUE and       *)
(* status 0; one that returned has the status of the response.             *)
(***************************************************************************)
IsPost(e) == e.ev = "post"

IsGet(e) == e.ev = "get"

\* A GET of the poll loop (line 62), and the GET of the fetch (line 75).
IsPoll(e) == e.ev = "get" /\ e.url[Len(e.url)] = ApiVersionQuery

IsFetch(e) == e.ev = "get" /\ e.url[Len(e.url)] = PdfQuery

IsSleep(e) == e.ev = "sleep"

IsWrite(e) == e.ev = "write"

IsPrint(e) == e.ev = "print"

\* The calls of each kind made so far, in order.
Posts == SelectSeq(log, IsPost)

Gets == SelectSeq(log, IsGet)

Polls == SelectSeq(log, IsPoll)

Fetches == SelectSeq(log, IsFetch)

Sleeps == SelectSeq(log, IsSleep)

Writes == SelectSeq(log, IsWrite)

(***************************************************************************)
(* The branches of create_searchable_pdf.                                  *)
(***************************************************************************)
\* A variant that waits and polls again on every status but 200.
PollBranch_RetryOnError(status) ==
    IF status = Ok THEN "break" ELSE "sleep"

\* A variant that leaves the loop on every status but 202.
PollBranch_ErrorBreaks(status) ==
    IF status = Accepted THEN "sleep" ELSE "break"

\* A variant that gives up at the third poll answered 202.
PollBranch_MaxAttempts(status) ==
    IF status = Ok THEN "break"
    ELSE IF status = Accepted /\ Len(Polls) < 2 THEN "sleep"
    ELSE "raise"

\* The branch the poll loop takes on a status (lines 63 to 70).
PollBranch(status) ==
    IF status = Ok THEN "break"
    ELSE IF status = Accepted THEN "sleep"
    ELSE "raise"

\* A variant that saves the body of every response.
FetchBranch_AlwaysSave(status) == "save"

\* The branch taken on the status of the fetch (lines 76 to 83).
FetchBranch(status) == IF status = Ok THEN "save" ELSE "raise"

\* A variant that leaves the loop after the wait.
AfterSleep_LeavesLoop == "fetch"

\* The line the loop goes to when time.sleep returns.
AfterSleep == "poll"

(***************************************************************************)
(* The environment: arguments, files and responses.                        *)
(***************************************************************************)
\* The input paths: o.pdf, d/o.pdf, o.PDF, a.pdf/o.pdf, o
Paths ==
    { <<"o", ".", "p", "d", "f">>,
      <<"d", "/", "o", ".", "p", "d", "f">>,
      <<"o", ".", "P", "D", "F">>,
      <<"a", ".", "p", "d", "f", "/", "o", ".", "p", "d", "f">>,
      <<"o">> }

Endpoints == {"https://ocr.example"}

ApiKeys == {"key1", "key2"}

\* What is at the input path: nothing, a file that is no PDF, a PDF of no
\* page, a PDF of three pages.
Sources == {<<>>, <<<<1>>>>, <<<<37>>>>, <<<<37, 1, 2, 3>>>>}

\* What is at the output path before the run: nothing, or an older file.
OldOutputs == {<<>>, <<<<0>>>>}

\* The statuses of the responses, their bodies and the bytes of the result.
Statuses == {200, 202, 500}

Texts == {"body"}

Contents == {<<37, 7>>, <<37, 8, 9>>}

\* The values of the Operation-Location header: none, or a string.
UrlChars == {"/", "?", "a"}

Locations == {<<>>} \cup {<<u>> : u \in SeqsUpTo(UrlChars, MaxUrlLen)}

\* The file system with the bytes c at path p.
WriteFile(f, p, c) == [q \in DOMAIN f \cup {p} |-> IF q = p THEN c ELSE f[q]]

\* The file system of the start: old (if any) at the output path, then
\* src (if any) at the input path.
InitialFs(path, src, old) ==
    LET empty  == [q \in {} |-> <<>>]
        first  == IF old = <<>> THEN empty
                  ELSE WriteFile(empty, OutputPath(path), old[1])
    IN  IF src = <<>> THEN first ELSE WriteFile(first, path, src[1])

Init ==
    /\ pc = "prepare"
    /\ file_path \in Paths
    /\ endpoint \in Endpoints
    /\ api_key \in ApiKeys
    /\ \E src \in Sources, old \in OldOutputs :
           fs = InitialFs(file_path, src, old)
    /\ fs0 = fs
    /\ payload = <<>>
    /\ result_id = <<>>
    /\ err = <<>>
    /\ log = <<>>

\* The parts of the message of an exception, as the f-string puts them
\* together: literal text, a formatted status code, a response body.
Lit(text) == <<"lit", text>>

Code(status) == <<"status", status>>

Body(text) == <<"body", text>>

\* The messages of the four raise statements.
PostFailedMessage(status, text) ==
    <<Lit("POST request failed: "), Code(status), Lit(" "), Body(text)>>

HeaderNotFoundMessage(status, text) ==
    <<Lit("Operation-Location header not found in POST response.")>>

GetFailedMessage(status, text) ==
    <<Lit("GET request failed: "), Code(status), Lit(" "), Body(text)>>

RetrieveFailedMessage(status, text) ==
    <<Lit("Failed to retrieve the PDF: "), Code(status), Lit(" "), Body(text)>>

\* A variant that catches the errors of the network and goes on.
Raise_SwallowsNetworkErrors(line, type, msg) ==
    IF type = "ConnectionError"
    THEN UNCHANGED <<err, pc>>
    ELSE /\ err' = <<[line |-> line, type |-> type, msg |-> msg]>>
         /\ pc' = "failed"

\* raise: an exception of this type, raised at this line with this message,
\* leaves create_searchable_pdf.
Raise(line, type, msg) ==
    /\ err' = <<[line |-> line, type |-> type, msg |-> msg]>>
    /\ pc' = "failed"

(***************************************************************************)
(* Line 37: pdf_to_base64_first_two_pages(file_path).                      *)
(***************************************************************************)
\* The calls writer.add_page(page) of line 18, one per page, in order.
AddPageCalls(pages) == [i \in 1..Len(pages) |-> [ev |-> "add_page", page |-> pages[i]]]

Prepare ==
    /\ pc = "prepare"
    /\ \/ /\ file_path \notin DOMAIN fs
          /\ log' = Append(log, [ev |-> "read", path |-> file_path])
          /\ Raise(10, "FileNotFoundError", <<>>)
          /\ UNCHANGED payload
       \/ /\ file_path \in DOMAIN fs
          /\ ~IsPdf(fs[file_path])
          /\ log' = Append(log, [ev |-> "read", path |-> file_path])
          /\ Raise(11, "PdfReadError", <<>>)
          /\ UNCHANGED payload
       \/ /\ file_path \in DOMAIN fs
          /\ IsPdf(fs[file_path])
          /\ log' = Append(log, [ev |-> "read", path |-> file_path])
                       \o AddPageCalls(AddedPages(Pages(fs[file_path])))
          /\ payload' = pdf_to_base64_first_two_pages(fs[file_path])
          /\ pc' = "submit"
          /\ UNCHANGED err
    /\ UNCHANGED <<file_path, endpoint, api_key, fs, fs0, result_id>>

(***************************************************************************)
(* Lines 46 to 60: the submission.                                         *)
(***************************************************************************)
PostCall(raised, status) ==
    [ev |-> "post", url |-> PostUrl(endpoint), headers |-> PostHeaders(api_key),
     json |-> [base64Source |-> payload], raised |-> raised, status |-> status]

Submit ==
    /\ pc = "submit"
    /\ \/ /\ log' = Append(log, PostCall(TRUE, 0))
          /\ Raise(46, "ConnectionError", <<>>)
          /\ UNCHANGED result_id
       \/ \E status \in Statuses, text \in Texts, location \in Locations :
            /\ log' = Append(log, PostCall(FALSE, status)
                                    @@ [location |-> location, text |-> text])
            /\ IF PostRejected(status)
               THEN /\ Raise(49, "Exception", PostFailedMessage(status, text))
                    /\ UNCHANGED result_id
               ELSE IF HeaderMissing(location)
               THEN /\ Raise(54, "Exception", HeaderNotFoundMessage(status, text))
                    /\ UNCHANGED result_id
               ELSE /\ result_id' = <<ExtractResultId(location[1])>>
                    /\ pc' = "poll"
                    /\ UNCHANGED err
    /\ UNCHANGED <<file_path, endpoint, api_key, fs, fs0, payload>>

(***************************************************************************)
(* Lines 61 to 70: one turn of the poll loop, up to the call of sleep.     *)
(***************************************************************************)
GetCall(url, raised, status) ==
    [ev |-> "get", url |-> url, headers |-> GetHeaders(api_key),
     raised |-> raised, status |-> status]

Printed(text) == [ev |-> "print", text |-> text]

Poll ==
    /\ pc = "poll"
    /\ Len(Polls) <= MaxPolls
    /\ LET url == PollUrl(GetUrl(endpoint, result_id[1]))
       IN  \/ /\ log' = Append(log, GetCall(url, TRUE, 0))
              /\ Raise(62, "ConnectionError", <<>>)
           \/ \E status \in Statuses, text \in Texts :
                /\ status = Accepted => Len(Polls) < MaxPolls
                /\ LET call == GetCall(url, FALSE, status) @@ [text |-> text]
                   IN  CASE PollBranch(status) = "break" ->
                              /\ log' = log \o <<call, Printed(<<"Operation is complete">>)>>
                              /\ pc' = "fetch"
                              /\ UNCHANGED err
                         [] PollBranch(status) = "sleep" ->
                              /\ log' = log \o <<call, Printed(<<"Processing... Please wait.">>),
                                                 [ev |-> "sleep", secs |-> SleepSeconds]>>
                              /\ pc' = "sleep"
                              /\ UNCHANGED err
                         [] OTHER ->
                              /\ log' = Append(log, call)
                              /\ Raise(70, "Exception", GetFailedMessage(status, text))
    /\ UNCHANGED <<file_path, endpoint, api_key, fs, fs0, payload, result_id>>

\* Line 68: time.sleep returns and the loop polls again.
Wake ==
    /\ pc = "sleep"
    /\ pc' = AfterSleep
    /\ UNCHANGED <<file_path, endpoint, api_key, fs, fs0, payload, result_id, err, log>>

(***************************************************************************)
(* Lines 73 to 83: the fetch of the PDF and the write of the output file.  *)
(***************************************************************************)
Fetch ==
    /\ pc = "fetch"
    /\ LET get_url == GetUrl(endpoint, result_id[1])
           pdf_url == PdfUrl(get_url)
           shown   == Printed(pdf_url)
       IN  \/ /\ log' = log \o <<shown, GetCall(pdf_url, TRUE, 0)>>
              /\ Raise(75, "ConnectionError", <<>>)
              /\ UNCHANGED fs
           \/ \E status \in Statuses, text \in Texts, content \in Contents :
                LET call == GetCall(pdf_url, FALSE, status)
                                @@ [text |-> text, content |-> content]
                    output_pdf_path == OutputPath(file_path)
                IN  IF FetchBranch(status) = "save"
                    THEN /\ fs' = WriteFile(fs, output_pdf_path, content)
                         /\ log' = log \o
                              << shown, call,
                                 [ev |-> "write", path |-> output_pdf_path,
                                  content |-> content],
                                 Printed(<<"Searchable PDF saved as ", output_pdf_path>>) >>
                         /\ pc' = "done"
                         /\ UNCHANGED err
                    ELSE /\ log' = log \o <<shown, call>>
                         /\ Raise(83, "Exception", RetrieveFailedMessage(status, text))
                         /\ UNCHANGED fs
    /\ UNCHANGED <<file_path, endpoint, api_key, fs0, payload, result_id>>

Next == Prepare \/ Submit \/ Poll \/ Wake \/ Fetch

(***************************************************************************)
(* pdf_to_base64_first_two_pages alone, on every document of at most       *)
(* MaxPages pages, on a file that is no PDF and on a missing file.         *)
(***************************************************************************)
PageBytes == {0, 77, 255}

Documents ==
    {<<>>, <<<<1>>>>} \cup {<<WriterBytes(p)>> : p \in SeqsUpTo(PageBytes, MaxPages)}

PrepInit ==
    /\ pc = "prepare"
    /\ file_path \in Paths
    /\ endpoint \in Endpoints
    /\ api_key \in ApiKeys
    /\ \E src \in Documents : fs = InitialFs(file_path, src, <<>>)
    /\ fs0 = fs
    /\ payload = <<>>
    /\ result_id = <<>>
    /\ err = <<>>
    /\ log = <<>>

PrepNext == Prepare

PrepSpec == PrepInit /\ [][PrepNext]_vars

Spec == Init /\ [][Next]_vars

\* The same program with every step of it eventually taken: no call blocks
\* for ever.
FairSpec == Spec /\ WF_vars(Next)

(***************************************************************************)
(* The vocabulary of the properties.                                       *)
(***************************************************************************)
\* The state of the client in the words of the design: SUBMITTING until
\* the submission is accepted, POLLING in the loop, SUCCEEDED between the
\* poll that returned 200 and the end of the fetch.
State ==
    CASE pc \in {"prepare", "submit"} -> "SUBMITTING"
      [] pc \in {"poll", "sleep"}     -> "POLLING"
      [] pc = "fetch"                 -> "SUCCEEDED"
      [] pc = "done"                  -> "DONE"
      [] OTHER                        -> "FAILED"

Terminal == State \in {"DONE", "FAILED"}

\* The call e returned a response of this status.
Returned(e, status) == ~e.raised /\ e.status = status

\* The requests and the waits, in order, without the prints and file I/O.
IsStep(e) == e.ev \in {"post", "get", "sleep"}

Steps == SelectSeq(log, IsStep)

\* The exception that left the function was raised at one of these lines.
RaisedAt(lines) == err # <<>> /\ err[1].line \in lines

\* The submission was answered and refused: a status other than 202, or
\* 202 without the Operation-Location header.
SubmissionRefused ==
    /\ Len(Posts) > 0
    /\ ~Posts[1].raised
    /\ Posts[1].status # 202 \/ Posts[1].location = <<>>

\* The polls so far: n times 202, then one more response.
AcceptedThen(n) ==
    /\ Len(Polls) = n + 1
    /\ \A i \in 1..n : Returned(Polls[i], 202)
    /\ ~Polls[n + 1].raised

(***************************************************************************)
(* C1: a submission answered with a status other than 202, or with 202 and *)
(* no Operation-Location header, raises the submission error (line 49 or   *)
(* 54); the POST is the last call made: no GET follows and no file is      *)
(* written.                                                                *)
(***************************************************************************)
C1_RefusedSubmissionStops ==
    SubmissionRefused =>
        /\ pc = "failed"
        /\ RaisedAt({49, 54})
        /\ IsPost(log[Len(log)])
        /\ Len(Gets) = 0
        /\ Len(Writes) = 0
        /\ fs = fs0

C1_Witness ==
    /\ SubmissionRefused
    /\ Posts[1].status = 202
    /\ pc = "failed"

(***************************************************************************)
(* C2: when the polls are answered n times 202 and then 200, there are n+1 *)
(* polls and n waits of 5 seconds; every wait comes directly after a 202   *)
(* poll and directly before the next poll, every 202 poll is directly      *)
(* followed by a wait, and the one fetch comes directly after the 200      *)
(* poll.                                                                   *)
(***************************************************************************)
C2_PollsWaitsThenFetch ==
    /\ \A i \in 1..Len(Steps) :
         /\ IsSleep(Steps[i]) =>
              /\ Steps[i].secs = 5
              /\ i > 1 /\ IsPoll(Steps[i - 1]) /\ Returned(Steps[i - 1], 202)
              /\ i < Len(Steps) => IsPoll(Steps[i + 1])
         /\ (IsPoll(Steps[i]) /\ Returned(Steps[i], 202)) =>
              i < Len(Steps) /\ IsSleep(Steps[i + 1])
         /\ IsFetch(Steps[i]) =>
              i > 1 /\ IsPoll(Steps[i - 1]) /\ Returned(Steps[i - 1], 200)
    /\ \A n \in 0..MaxPolls :
         (AcceptedThen(n) /\ Polls[n + 1].status = 200) =>
            /\ Len(Gets) = n + 1 + Len(Fetches)
            /\ Len(Sleeps) = n
            /\ pc \in {"fetch", "done", "failed"}
            /\ Len(Fetches) = IF Terminal THEN 1 ELSE 0

C2_Witness ==
    /\ AcceptedThen(2)
    /\ Polls[3].status = 200
    /\ Len(Sleeps) = 2
    /\ Len(Fetches) = 1

(***************************************************************************)
(* C3: when the polls are answered n times 202 and then a status other     *)
(* than 200 and 202, the polling error (line 70) is raised at once: that   *)
(* poll is the last call, there is no fetch and no file is written.        *)
(***************************************************************************)
C3_PollErrorStops ==
    \A n \in 0..MaxPolls :
        (AcceptedThen(n) /\ Polls[n + 1].status \notin {200, 202}) =>
            /\ pc = "failed"
            /\ RaisedAt({70})
            /\ err[1].msg[2] = Code(Polls[n + 1].status)
            /\ log[Len(log)] = Polls[n + 1]
            /\ Len(Fetches) = 0
            /\ Len(Writes) = 0
            /\ fs = fs0

C3_Witness ==
    /\ AcceptedThen(1)
    /\ Polls[2].status = 500
    /\ pc = "failed"

(***************************************************************************)
(* C4: when the fetch returns 200, the bytes of the response are at the    *)
(* input path without its extension followed by "_searchable.pdf"          *)
(* (original.pdf gives original_searchable.pdf), whatever was there.       *)
(***************************************************************************)
\* The last index of the character c in s, 0 when s has none.
RECURSIVE LastIndexFrom(_, _, _)
LastIndexFrom(s, c, i) ==
    IF i = 0 THEN 0
    ELSE IF s[i] = c THEN i
    ELSE LastIndexFrom(s, c, i - 1)

LastIndex(s, c) == LastIndexFrom(s, c, Len(s))

\* The path without its extension: the extension starts at the last dot of
\* the last component, unless that dot is the first character of it.
WithoutExtension(path) ==
    LET slash == LastIndex(path, "/")
        dot   == LastIndex(path, ".")
    IN  IF dot > slash + 1 THEN SubSeq(path, 1, dot - 1) ELSE path

SearchablePathOf(path) == WithoutExtension(path) \o SearchablePdf

\* The fetch of the run, once it has been made.
TheFetch == Fetches[1]

FetchSucceeded == Len(Fetches) = 1 /\ Returned(TheFetch, 200)

C4_OutputAtSearchablePath ==
    (pc = "done" /\ FetchSucceeded) =>
        /\ SearchablePathOf(file_path) \in DOMAIN fs
        /\ fs[SearchablePathOf(file_path)] = TheFetch.content

(***************************************************************************)
(* C5: the source document is never mutated: the bytes at the input path   *)
(* are at every moment those of the start of the invocation.               *)
(***************************************************************************)
C5_SourceNeverMutated ==
    file_path \in DOMAIN fs0 =>
        /\ file_path \in DOMAIN fs
        /\ fs[file_path] = fs0[file_path]

(***************************************************************************)
(* C6: the client follows the state machine of the design.  It starts in   *)
(* SUBMITTING; POLLING is entered only from SUBMITTING by a POST answered  *)
(* 202 with an Operation-Location header, and kept only by a poll answered *)
(* 202 (or the end of the wait); SUCCEEDED is entered only from POLLING by *)
(* a poll answered 200; DONE only from SUCCEEDED by a fetch answered 200;  *)
(* every other outcome of a request leads to FAILED; nothing happens after *)
(* DONE or FAILED.                                                         *)
(***************************************************************************)
LastStep == Steps[Len(Steps)]

\* This step made one more request (or wait).
Stepped == Len(Steps') > Len(Steps)

C6_Step ==
    /\ ~Terminal
    /\ State = "SUBMITTING" => State' \in {"SUBMITTING", "POLLING", "FAILED"}
    /\ State = "POLLING" => State' \in {"POLLING", "SUCCEEDED", "FAILED"}
    /\ State = "SUCCEEDED" => State' \in {"DONE", "FAILED"}
    /\ (State = "SUBMITTING" /\ State' = "SUBMITTING") => ~Stepped
    /\ (State = "SUBMITTING" /\ State' = "POLLING") =>
          /\ Stepped /\ IsPost(LastStep') /\ Returned(LastStep', 202)
          /\ LastStep'.location # <<>>
    /\ (State = "POLLING" /\ State' = "POLLING") =>
          \/ log' = log /\ pc = "sleep"
          \/ /\ Stepped /\ IsSleep(LastStep')
             /\ IsPoll(Steps'[Len(Steps') - 1])
             /\ Returned(Steps'[Len(Steps') - 1], 202)
    /\ State' = "SUCCEEDED" =>
          Stepped /\ IsPoll(LastStep') /\ Returned(LastStep', 200)
    /\ State' = "DONE" =>
          Stepped /\ IsFetch(LastStep') /\ Returned(LastStep', 200)
    /\ (Stepped /\ IsPost(LastStep')
          /\ (LastStep'.raised \/ LastStep'.status # 202
                \/ LastStep'.location = <<>>)) => State' = "FAILED"
    /\ (Stepped /\ IsPoll(LastStep')
          /\ (LastStep'.raised \/ LastStep'.status \notin {200, 202}))
          => State' = "FAILED"
    /\ (Stepped /\ IsFetch(LastStep')
          /\ (LastStep'.raised \/ LastStep'.status # 200)) => State' = "FAILED"

C6_StateMachine == State = "SUBMITTING" /\ [][C6_Step]_vars

C6_Witness ==
    /\ pc = "done"
    /\ Len(Sleeps) > 0

(***************************************************************************)
(* C7: one job per invocation: the POST is made at most once, and exactly  *)
(* once as soon as the document has been prepared and submitted; it comes  *)
(* before every GET, and every poll and the fetch address the result id    *)
(* extracted from the Operation-Location header of the response to it.     *)
(***************************************************************************)
\* Every GET so far addresses the result id of the one accepted POST.
GetsUseTheResultId ==
    \A i \in 1..Len(log) :
       IsGet(log[i]) =>
          /\ Len(Posts) = 1
          /\ Returned(Posts[1], 202)
          /\ result_id = <<ExtractResultId(Posts[1].location[1])>>
          /\ log[i].url[1] = endpoint
          /\ log[i].url[2] = ResultsPath
          /\ log[i].url[3] = result_id[1]
          /\ IsPoll(log[i]) \/ IsFetch(log[i])

\* The document was prepared and line 46 has run.
Submitted == pc \notin {"prepare", "submit"} /\ ~RaisedAt({10, 11})

C7_OneJob ==
    /\ Len(Posts) = IF Submitted THEN 1 ELSE 0
    /\ \A i \in 1..Len(Steps) : IsPost(Steps[i]) => i = 1
    /\ GetsUseTheResultId

C7_Witness ==
    /\ Len(Polls) = 3
    /\ Len(Fetches) = 1
    /\ result_id = <<<<"a">>>>

\* C7 as stated: every invocation makes the POST exactly once.
C7_ExactlyOnePost ==
    Terminal => Len(Posts) = 1 /\ GetsUseTheResultId

(***************************************************************************)
(* C8: polling has no maximum attempt count: after k polls answered 202,   *)
(* for every k, the client is in POLLING, not DONE or FAILED, and the next *)
(* thing it does is the end of the wait and then another poll.             *)
(***************************************************************************)
AllAccepted ==
    /\ Len(Polls) > 0
    /\ \A i \in 1..Len(Polls) : Returned(Polls[i], 202)

C8_NoAttemptLimit ==
    AllAccepted =>
        /\ State = "POLLING"
        /\ pc = "sleep" => ENABLED (Wake /\ pc' = "poll")
        /\ pc = "poll" => ENABLED Poll

C8_Witness ==
    /\ AllAccepted
    /\ Len(Polls) = MaxPolls
    /\ pc = "poll"

(***************************************************************************)
(* C9: when every call returns and the polls are not answered 202 for      *)
(* ever, the invocation ends: it reaches DONE or FAILED.                   *)
(***************************************************************************)
C9_Terminates == <>Terminal

C9_Witness ==
    /\ Terminal
    /\ Len(Sleeps) = MaxPolls

(***************************************************************************)
(* C10: the job identifier extracted from the Operation-Location header is *)
(* the last segment of the path of that URL, the query string (from the    *)
(* first "?") being no part of the path.                                   *)
(***************************************************************************)
LastPathSegment(url) ==
    LET path     == Split(url, "?")[1]
        segments == Split(path, "/")
    IN  segments[Len(segments)]

C10_IdIsLastPathSegment ==
    result_id # <<>> =>
        result_id[1] = LastPathSegment(Posts[1].location[1])

(***************************************************************************)
(* C11: of a document of n pages, pdf_to_base64_first_two_pages adds to    *)
(* the writer exactly the first min(2, n) pages, in their order: all of    *)
(* them when n <= 2 (n = 0 and n = 1 included, without error), the first   *)
(* two and no other when n > 2.                                            *)
(***************************************************************************)
IsAddPage(e) == e.ev = "add_page"

\* The pages added to the writer, in the order of the calls.
AddedToWriter ==
    LET calls == SelectSeq(log, IsAddPage)
    IN  [i \in 1..Len(calls) |-> calls[i].page]

\* The source is a PDF: the byte 37, then its pages.
SourceIsPdf ==
    /\ file_path \in DOMAIN fs0
    /\ Len(fs0[file_path]) > 0
    /\ fs0[file_path][1] = 37

SourcePageCount == Len(fs0[file_path]) - 1

SourcePage(i) == fs0[file_path][i + 1]

C11_FirstTwoPages ==
    (SourceIsPdf /\ pc # "prepare") =>
        /\ pc = "submit"
        /\ err = <<>>
        /\ Len(AddedToWriter) =
              IF SourcePageCount <= 2 THEN SourcePageCount ELSE 2
        /\ \A i \in 1..Len(AddedToWriter) : AddedToWriter[i] = SourcePage(i)

C11_Witness ==
    /\ SourceIsPdf
    /\ SourcePageCount = 3
    /\ pc = "submit"
    /\ Len(AddedToWriter) = 2

(***************************************************************************)
(* C12: an exception of the network raised by the POST, by a poll or by    *)
(* the fetch aborts the operation at once: the request that raised is the  *)
(* last thing done, it is not made again, and no file is written.          *)
(***************************************************************************)
IsRequest(e) == e.ev \in {"post", "get"}

C12_NetworkErrorAborts ==
    \A i \in 1..Len(log) :
        (IsRequest(log[i]) /\ log[i].raised) =>
            /\ i = Len(log)
            /\ pc = "failed"
            /\ RaisedAt({46, 62, 75})
            /\ err[1].type = "ConnectionError"
            /\ Len(Writes) = 0
            /\ fs = fs0

C12_Witness ==
    /\ Len(Polls) = 2
    /\ Polls[2].raised
    /\ pc = "failed"

(***************************************************************************)
(* C13: a fetch answered with a status other than 200 raises the retrieval *)
(* error (line 83) with the status and the body of the response in its     *)
(* message; no file is written and no poll or fetch is made again.         *)
(***************************************************************************)
\* The message holds this status code and this response body.
HasCode(msg, status) == \E i \in 1..Len(msg) : msg[i] = Code(status)

HasBody(msg, text) == \E i \in 1..Len(msg) : msg[i] = Body(text)

C13_FetchErrorStops ==
    (Len(Fetches) > 0 /\ ~TheFetch.raised /\ TheFetch.status # 200) =>
        /\ pc = "failed"
        /\ RaisedAt({83})
        /\ HasCode(err[1].msg, TheFetch.status)
        /\ HasBody(err[1].msg, TheFetch.text)
        /\ log[Len(log)] = TheFetch
        /\ Len(Fetches) = 1
        /\ Len(Writes) = 0
        /\ fs = fs0

C13_Witness ==
    /\ Len(Fetches) = 1
    /\ Returned(TheFetch, 500)
    /\ Len(Sleeps) = 1
    /\ pc = "failed"

(***************************************************************************)
(* C14: every failed submission, a response other than 202 as well as a    *)
(* 202 response without Operation-Location header, fails with an error     *)
(* whose message holds the status code and the body of the response.       *)
(***************************************************************************)
C14_SubmissionMessageHasStatusAndBody ==
    RaisedAt({49, 54}) =>
        /\ HasCode(err[1].msg, Posts[1].status)
        /\ HasBody(err[1].msg, Posts[1].text)

(***************************************************************************)
(* C15: the encoding is a round trip: the base64 decoding of the payload   *)
(* returned by pdf_to_base64_first_two_pages is exactly the serialized     *)
(* bytes of the document of the selected pages.                            *)
(***************************************************************************)
\* The value of a character of the base64 alphabet.
B64Value(c) == (CHOOSE i \in 1..64 : B64Chars[i] = c) - 1

\* Base64 decoding: 4 characters give 3 bytes, fewer when padded with "=";
\* <<-1>> for a text that is no base64.
RECURSIVE B64DecodeFrom(_, _)
B64DecodeFrom(s, i) ==
    IF i > Len(s) THEN <<>>
    ELSE LET v1 == B64Value(s[i])
             v2 == B64Value(s[i + 1])
             b1 == v1 * 4 + (v2 \div 16)
         IN  IF s[i + 2] = "=" THEN <<b1>>
             ELSE LET v3 == B64Value(s[i + 2])
                      b2 == (v2 % 16) * 16 + (v3 \div 4)
                  IN  IF s[i + 3] = "=" THEN <<b1, b2>>
                      ELSE LET b3 == (v3 % 4) * 64 + B64Value(s[i + 3])
                           IN  <<b1, b2, b3>> \o B64DecodeFrom(s, i + 4)

b64decode(s) == IF Len(s) % 4 # 0 THEN <<-1>> ELSE B64DecodeFrom(s, 1)

C15_EncodingRoundTrip ==
    pc = "submit" => b64decode(payload) = <<37>> \o AddedToWriter

C15_Witness ==
    /\ pc = "submit"
    /\ Len(AddedToWriter) = 1
    /\ payload[Len(payload)] = "="
    /\ b64decode(payload) = <<37, 255>>

(***************************************************************************)
(* C16: the document is prepared before any call of the network: when the  *)
(* file is missing or no PDF the error leaves create_searchable_pdf, and   *)
(* no POST, no GET and no write is made.                                   *)
(***************************************************************************)
C16_PreparationFirst ==
    /\ (~SourceIsPdf /\ pc # "prepare") =>
          /\ pc = "failed"
          /\ RaisedAt({10, 11})
          /\ Len(Posts) = 0
          /\ Len(Gets) = 0
          /\ Len(Writes) = 0
          /\ fs = fs0
    /\ (Len(Posts) > 0 \/ Len(Gets) > 0) =>
          /\ log[1].ev = "read"
          /\ payload # <<>>

C16_Witness ==
    /\ file_path \in DOMAIN fs0
    /\ ~SourceIsPdf
    /\ pc = "failed"

(***************************************************************************)
(* C17: the progress output follows the protocol: "Processing... Please    *)
(* wait." once for every poll answered 202, right after it; "Operation is  *)
(* complete" once, right after the poll answered 200, and never without    *)
(* one; the line of the saved path only right after the write of the file, *)
(* and never in a run that ends in FAILED.                                 *)
(***************************************************************************)
IsProcessingLine(e) == IsPrint(e) /\ e.text[1] = "Processing... Please wait."

IsCompleteLine(e) == IsPrint(e) /\ e.text[1] = "Operation is complete"

IsSavedLine(e) == IsPrint(e) /\ e.text[1] = "Searchable PDF saved as "

IsAccepted(e) == IsPoll(e) /\ Returned(e, 202)

IsCompleted(e) == IsPoll(e) /\ Returned(e, 200)

C17_ProgressOutput ==
    /\ \A i \in 1..Len(log) :
         /\ IsProcessingLine(log[i]) => i > 1 /\ IsAccepted(log[i - 1])
         /\ IsAccepted(log[i]) => i < Len(log) /\ IsProcessingLine(log[i + 1])
         /\ IsCompleteLine(log[i]) => i > 1 /\ IsCompleted(log[i - 1])
         /\ IsCompleted(log[i]) => i < Len(log) /\ IsCompleteLine(log[i + 1])
         /\ IsSavedLine(log[i]) =>
              /\ i > 1 /\ IsWrite(log[i - 1])
              /\ log[i].text[2] = log[i - 1].path
              /\ log[i - 1].path \in DOMAIN fs
    /\ Len(SelectSeq(log, IsProcessingLine)) = Len(SelectSeq(log, IsAccepted))
    /\ Len(SelectSeq(log, IsCompleteLine)) = Len(SelectSeq(log, IsCompleted))
    /\ Len(SelectSeq(log, IsCompleteLine)) <= 1
    /\ Len(SelectSeq(log, IsSavedLine)) = IF pc = "done" THEN 1 ELSE 0

C17_Witness ==
    /\ pc = "done"
    /\ Len(SelectSeq(log, IsProcessingLine)) = 2
    /\ Len(SelectSeq(log, IsCompleteLine)) = 1
    /\ Len(SelectSeq(log, IsSavedLine)) = 1

(***************************************************************************)
(* C18: an invocation writes the output file at most once, and it writes   *)
(* it exactly when the run ends in DONE: submission 202 with the header, a *)
(* poll 200, the fetch 200; a run that ends in FAILED leaves the file      *)
(* system as it was.                                                       *)
(***************************************************************************)
C18_WriteIffDone ==
    /\ Len(Writes) <= 1
    /\ Len(Writes) = 1 <=> pc = "done"
    /\ Len(Writes) = 0 => fs = fs0
    /\ pc = "failed" => fs = fs0
    /\ pc = "done" =>
          /\ Returned(Posts[1], 202) /\ Posts[1].location # <<>>
          /\ Len(SelectSeq(log, IsCompleted)) = 1
          /\ FetchSucceeded
          /\ fs = WriteFile(fs0, Writes[1].path, TheFetch.content)

C18_Witness ==
    /\ pc = "done"
    /\ Len(Writes) = 1
    /\ fs # fs0

(***************************************************************************)
(* C19: a 202 response whose Operation-Location header is there with an    *)
(* empty value is handled like a missing header: the invocation fails      *)
(* (line 54) before any poll.                                              *)
(***************************************************************************)
EmptyLocation ==
    /\ Len(Posts) > 0
    /\ Returned(Posts[1], 202)
    /\ Posts[1].location = <<<<>>>>

C19_EmptyHeaderFails ==
    EmptyLocation =>
        /\ pc = "failed"
        /\ RaisedAt({54})
        /\ result_id = <<>>
        /\ Len(Gets) = 0
        /\ IsPost(log[Len(log)])

C19_Witness == EmptyLocation /\ pc = "failed"

(***************************************************************************)
(* C20: the API key travels only in the subscription-key header of the     *)
(* POST, of the polls and of the fetch.  Every URL, the request body,      *)
(* every printed line and the written file are made of the endpoint, the   *)
(* literals, the payload, the result id, the input path and the bytes of   *)
(* the response alone, and no part of them is the key: they are the same   *)
(* whatever the key.                                                       *)
(***************************************************************************)
\* No character of the string s is the key.
KeyFree(s) == \A i \in 1..Len(s) : s[i] # api_key

\* The URL of a GET is a URL of the results of the job, without the key.
KeyFreeGetUrl(url) ==
    /\ url \in { <<endpoint, ResultsPath, result_id[1], ApiVersionQuery>>,
                 <<endpoint, ResultsPath, result_id[1], PdfQuery>> }
    /\ endpoint # api_key
    /\ KeyFree(result_id[1])

C20_KeyOnlyInHeader ==
    \A i \in 1..Len(log) :
       LET e == log[i]
       IN  /\ IsPost(e) =>
                /\ e.headers.subscription_key = api_key
                /\ e.url = <<endpoint, PostPath>>
                /\ KeyFree(e.url)
                /\ e.json = [base64Source |-> payload]
                /\ KeyFree(payload)
           /\ IsGet(e) =>
                /\ e.headers = [subscription_key |-> api_key]
                /\ KeyFreeGetUrl(e.url)
           /\ IsPrint(e) =>
                \/ e.text \in { <<"Operation is complete">>,
                                <<"Processing... Please wait.">> }
                \/ Len(e.text) = 4 /\ KeyFreeGetUrl(e.text)
                \/ /\ IsSavedLine(e)
                   /\ e.text[2] = log[i - 1].path
           /\ IsWrite(e) =>
                /\ e.path = Replace(file_path, DotPdf, SearchablePdf)
                /\ KeyFree(e.path)
                /\ e.content = TheFetch.content

C20_Witness ==
    /\ pc = "done"
    /\ api_key = "key2"
    /\ Len(Polls) = 2

====
